---- MODULE Spec2Model ----
(***************************************************************************)
(* Model of Utilities/build-script-helper.py: one run of main().           *)
(*                                                                         *)
(* A Python string is modelled as a sequence of fragments.  Path strings   *)
(* are sequences of single characters, so that os.path.abspath and         *)
(* os.path.join are computed character by character; fixed literals of the *)
(* script ('build', '--package-path', 'usr', ...) are one fragment each.   *)
(* String concatenation is \o.                                             *)
(***************************************************************************)
EXTENDS Integers, Sequences, FiniteSets, TLC

(* ------------------------------ bounds --------------------------------- *)

\* longest --toolchain value, in characters
MaxPathLen == 3

\* largest exit status of the child process
MaxStatus == 3

(* ----------------------------- constants ------------------------------- *)

\* status of parser.error() (argparse: usage message, then sys.exit(2))
ExitUsage == 2

\* status of the interpreter when main() ends by an uncaught exception
ExitUncaught == 1

(* ------------------------------ strings -------------------------------- *)

\* Python's None, and the value of an attribute the Namespace does not have
None == << "<None>" >>
Undefined == << "<no attribute>" >>

SEP == "/"
PathChars == {"/", ".", "a"}

\* every string over PathChars of at most n characters
PathsUpTo(n) == UNION {[1..k -> PathChars] : k \in 0..n}

StartsWith(s, c) == Len(s) >= 1 /\ s[1] = c
EndsWith(s, c) == Len(s) >= 1 /\ s[Len(s)] = c

\* sep.join(strs), for a sequence of strings
RECURSIVE JoinWith(_, _)
JoinWith(strs, sep) ==
  IF strs = <<>> THEN <<>>
  ELSE IF Len(strs) = 1 THEN strs[1]
  ELSE strs[1] \o sep \o JoinWith(Tail(strs), sep)

\* s.split('/'): the components between separators, empty ones included
RECURSIVE SplitSep(_)
SplitSep(s) ==
  IF \A i \in 1..Len(s) : s[i] # SEP THEN << s >>
  ELSE LET i == CHOOSE j \in 1..Len(s) :
                  s[j] = SEP /\ \A k \in 1..(j - 1) : s[k] # SEP
       IN << SubSeq(s, 1, i - 1) >> \o SplitSep(SubSeq(s, i + 1, Len(s)))

(* --------------------------- os.path (posix) --------------------------- *)

isabs(p) == StartsWith(p, SEP)

\* os.path.join(a, b)
join(a, b) ==
  IF StartsWith(b, SEP) THEN b
  ELSE IF a = <<>> \/ EndsWith(a, SEP) THEN a \o b
  ELSE a \o << SEP >> \o b

\* the number of leading slashes normpath keeps: 0, 1, or 2 for exactly two
initial_slashes(p) ==
  IF ~StartsWith(p, SEP) THEN 0
  ELSE IF Len(p) >= 2 /\ p[2] = SEP /\ ~(Len(p) >= 3 /\ p[3] = SEP) THEN 2
  ELSE 1

\* the loop of normpath over the components: drop '' and '.', resolve '..'
RECURSIVE new_comps(_, _, _)
new_comps(comps, acc, slashes) ==
  IF comps = <<>> THEN acc
  ELSE LET comp == Head(comps)
           rest == Tail(comps)
       IN IF comp = <<>> \/ comp = << "." >>
            THEN new_comps(rest, acc, slashes)
          ELSE IF \/ comp # << ".", "." >>
                  \/ (slashes = 0 /\ acc = <<>>)
                  \/ (acc # <<>> /\ acc[Len(acc)] = << ".", "." >>)
            THEN new_comps(rest, Append(acc, comp), slashes)
          ELSE IF acc # <<>>
            THEN new_comps(rest, SubSeq(acc, 1, Len(acc) - 1), slashes)
          ELSE new_comps(rest, acc, slashes)

\* os.path.normpath(p)
normpath(p) ==
  IF p = <<>> THEN << "." >>
  ELSE LET n == initial_slashes(p)
           joined == JoinWith(new_comps(SplitSep(p), <<>>, n), << SEP >>)
           path == [i \in 1..n |-> SEP] \o joined
       IN IF path = <<>> THEN << "." >> ELSE path

abspath_mutant_identity(cwd, p) == p

abspath_mutant_concat(cwd, p) == normpath(cwd \o << SEP >> \o p)

\* os.path.abspath(p) in working directory cwd
abspath(cwd, p) ==
  IF isabs(p) THEN normpath(p) ELSE normpath(join(cwd, p))

(* ------------------------------ inputs --------------------------------- *)

Str_build == << "build" >>
Str_test == << "test" >>
Str_unknown == << "frobnicate" >>
Str_debug == << "debug" >>
Str_release == << "release" >>
Str_other == << "profile" >>

\* the first positional argument: none, a subcommand, or an unrecognized word
Actions == {None, Str_build, Str_test, Str_unknown}

\* values of --toolchain: every string of at most MaxPathLen path characters
ToolchainPaths == PathsUpTo(MaxPathLen)

\* values of --package-path and of --build-path
PackagePaths == { << "a" >>, << "/" >> }
BuildPaths == { << "a" >>, << ".", "." >> }

\* --configuration is free text
Configurations == {Str_release, Str_other}

\* os.getcwd(): absolute and normalized
WorkingDirs == { << "/" >>, << "/", "w" >> }

\* A command line, by what it holds.  An option that is not given is None.
\* help is where -h/--help stands: "none", "main" (before the subcommand) or
\* "sub" (after it).
CommandLines ==
  { c \in [ action : Actions,
            help : {"none", "main", "sub"},
            toolchain : {None} \cup ToolchainPaths,
            package_path : {None} \cup PackagePaths,
            build_path : {None} \cup BuildPaths,
            configuration : {None} \cup Configurations,
            verbose : BOOLEAN ] :
      \* without a first positional, -h can only stand in the main parser
      c.action = None => c.help # "sub" }

AnyOption(c) ==
  \/ c.toolchain # None
  \/ c.package_path # None
  \/ c.build_path # None
  \/ c.configuration # None
  \/ c.verbose

(* ------------------------------ parser --------------------------------- *)

Default(v, d) == IF v = None THEN d ELSE v

\* the Namespace of a subcommand's parser, defaults filled in
SubNamespace(c) ==
  [ action |-> c.action,
    package_path |-> Default(c.package_path, << "." >>),
    toolchain |-> c.toolchain,
    build_path |-> Default(c.build_path, << ".", "build" >>),
    configuration |-> Default(c.configuration, Str_debug),
    verbose |-> c.verbose ]

\* the Namespace of the main parser alone: only dest='action', unset
MainNamespace ==
  [ action |-> None,
    package_path |-> Undefined,
    toolchain |-> Undefined,
    build_path |-> Undefined,
    configuration |-> Undefined,
    verbose |-> FALSE ]

subcommands_mutant_unchecked == Actions \ {None}

\* the choices of the subparsers action
subcommands == {Str_build, Str_test}

toolchain_required_mutant_optional == FALSE

\* required=True of --toolchain
toolchain_required == TRUE

\* parser.parse_args(sys.argv[1:]): "ok" with a Namespace, "error" (usage
\* message on stderr, exit 2) or "help" (help on stdout, exit 0).
\* required_subparsers: whether this argparse fails on a missing subcommand
\* (Python 2.7 does: "too few arguments"; Python 3 does not).
parse_args(c, required_subparsers) ==
  IF c.help = "main" THEN [outcome |-> "help", ns |-> MainNamespace]
  ELSE IF c.action = None THEN
    IF AnyOption(c) \/ required_subparsers
      THEN [outcome |-> "error", ns |-> MainNamespace]
      ELSE [outcome |-> "ok", ns |-> MainNamespace]
  ELSE IF c.action \notin subcommands
    THEN [outcome |-> "error", ns |-> MainNamespace]
  ELSE IF c.help = "sub" THEN [outcome |-> "help", ns |-> MainNamespace]
  ELSE IF c.toolchain = None THEN
    IF toolchain_required
      THEN [outcome |-> "error", ns |-> MainNamespace]
      ELSE [outcome |-> "ok", ns |-> SubNamespace(c)]
  ELSE [outcome |-> "ok", ns |-> SubNamespace(c)]

(* --------------------------- the script's functions -------------------- *)

get_swiftpm_options_mutant_noverbose(a) ==
  << << "--package-path" >>, a.package_path,
     << "--build-path" >>, a.build_path,
     << "--configuration" >>, a.configuration >>

get_swiftpm_options(a) ==
  << << "--package-path" >>, a.package_path,
     << "--build-path" >>, a.build_path,
     << "--configuration" >>, a.configuration >>
  \o (IF a.verbose THEN << << "--verbose" >> >> ELSE <<>>)

\* the truth value of a Python string; None is false
Truthy(s) == s # <<>> /\ s # None

\* lines 57-60
resolve_swift_exec(toolchain) ==
  IF Truthy(toolchain)
    THEN join(join(join(toolchain, << "usr" >>), << "bin" >>), << "swift" >>)
    ELSE << "swift" >>

\* cmd of swiftpm()
swiftpm_cmd(action, exec, options) == << exec, action >> \o options

\* what print(' '.join(cmd)) writes
command_line(c) == JoinWith(c, << " " >>)

check_call_status_mutant_zero(n) == 0

\* the script's exit status after subprocess.check_call, child status n:
\* a nonzero n raises CalledProcessError, which nothing catches
check_call_status(n) == IF n = 0 THEN 0 ELSE ExitUncaught

(* ------------------------------- state --------------------------------- *)

VARIABLES
  argv,          \* the command line (sys.argv[1:])
  cwd,           \* the working directory
  pc,            \* where main() stands
  args,          \* the Namespace
  swift_exec,    \* the resolved executable
  swiftpm_args,  \* the assembled options
  cmd,           \* cmd of swiftpm()
  stdout_buf,    \* lines print() has left in sys.stdout's buffer
  stdout,        \* lines that have reached standard output
  stderr,        \* what was written to standard error, by kind
  child,         \* the child process: state, argv, status
  spawned,       \* how many child processes were started
  failure,       \* why the script failed, "none" if it has not
  exit_status    \* the script's exit status; -1 while it runs

vars == << argv, cwd, pc, args, swift_exec, swiftpm_args, cmd, stdout_buf,
           stdout, stderr, child, spawned, failure, exit_status >>

NoChild == [state |-> "none", argv |-> <<>>, status |-> 0]

HelpText == << "usage: build-script-helper.py [-h] ..." >>

Init ==
  /\ argv \in CommandLines
  /\ cwd \in WorkingDirs
  /\ pc = "Start"
  /\ args = MainNamespace
  /\ swift_exec = <<>>
  /\ swiftpm_args = <<>>
  /\ cmd = <<>>
  /\ stdout_buf = <<>>
  /\ stdout = <<>>
  /\ stderr = <<>>
  /\ child = NoChild
  /\ spawned = 0
  /\ failure = "none"
  /\ exit_status = -1

\* the interpreter exits: what is left in sys.stdout's buffer is written
FlushAtExit ==
  /\ stdout' = stdout \o stdout_buf
  /\ stdout_buf' = <<>>

\* the script ends by an uncaught exception: traceback, exit status 1
Raise(kind) ==
  /\ pc' = "Failed"
  /\ failure' = kind
  /\ stderr' = Append(stderr, << "Traceback", kind >>)
  /\ exit_status' = ExitUncaught
  /\ FlushAtExit

\* line 50: args = parser.parse_args(sys.argv[1:]), with the argparse of
\* Python 2 (a subcommand is required) or of Python 3 (it is not)
ParseArgs ==
  /\ pc = "Start"
  /\ \E required_subparsers \in BOOLEAN :
       LET r == parse_args(argv, required_subparsers)
       IN CASE r.outcome = "ok" ->
                 /\ pc' = "Parsed"
                 /\ args' = r.ns
                 /\ UNCHANGED << stdout_buf, stdout, stderr, failure,
                                 exit_status >>
            [] r.outcome = "help" ->
                 /\ pc' = "Done"
                 /\ stdout' = stdout \o stdout_buf \o << HelpText >>
                 /\ stdout_buf' = <<>>
                 /\ exit_status' = 0
                 /\ UNCHANGED << args, stderr, failure >>
            [] OTHER ->
                 /\ pc' = "Failed"
                 /\ failure' = "usage"
                 /\ stderr' = Append(stderr, << "usage", "error" >>)
                 /\ exit_status' = ExitUsage
                 /\ FlushAtExit
                 /\ UNCHANGED args
  /\ UNCHANGED << argv, cwd, swift_exec, swiftpm_args, cmd, child, spawned >>

\* lines 53-55: the three paths are made absolute; a Namespace without the
\* attributes ends the script with AttributeError at line 53
CanonicalizePaths ==
  /\ pc = "Parsed"
  /\ IF args.package_path = Undefined
       THEN /\ Raise("AttributeError")
            /\ UNCHANGED args
       ELSE /\ pc' = "Canonical"
            /\ args' = [args EXCEPT
                 !.package_path = abspath(cwd, args.package_path),
                 !.build_path = abspath(cwd, args.build_path),
                 !.toolchain = abspath(cwd, args.toolchain)]
            /\ UNCHANGED << stdout_buf, stdout, stderr, failure, exit_status >>
  /\ UNCHANGED << argv, cwd, swift_exec, swiftpm_args, cmd, child, spawned >>

\* lines 57-62: the executable and the options
ResolveExecutable ==
  /\ pc = "Canonical"
  /\ swift_exec' = resolve_swift_exec(args.toolchain)
  /\ swiftpm_args' = get_swiftpm_options(args)
  /\ pc' = "Ready"
  /\ UNCHANGED << argv, cwd, args, cmd, stdout_buf, stdout, stderr, child,
                  spawned, failure, exit_status >>

\* lines 66-71 and line 13: the dispatch on args.action, into swiftpm()
Dispatch ==
  /\ pc = "Ready"
  /\ IF args.action = Str_build
       THEN /\ cmd' = swiftpm_cmd(Str_build, swift_exec, swiftpm_args)
            /\ pc' = "swiftpm"
            /\ UNCHANGED << stdout_buf, stdout, stderr, failure, exit_status >>
       ELSE IF args.action = Str_test
       THEN /\ cmd' = swiftpm_cmd(Str_test, swift_exec, swiftpm_args)
            /\ pc' = "swiftpm"
            /\ UNCHANGED << stdout_buf, stdout, stderr, failure, exit_status >>
       ELSE /\ Raise("AssertionError")
            /\ UNCHANGED cmd
  /\ UNCHANGED << argv, cwd, args, swift_exec, swiftpm_args, child, spawned >>

\* line 14: print(' '.join(cmd)).  sys.stdout is line-buffered on a terminal
\* (the line is written at once) and block-buffered on a pipe or a file (the
\* line stays in the buffer: nothing flushes it before the interpreter exits)
PrintCommand ==
  /\ pc = "swiftpm"
  /\ \E line_buffered \in BOOLEAN :
       IF line_buffered
         THEN /\ stdout' = Append(stdout, command_line(cmd))
              /\ UNCHANGED stdout_buf
         ELSE /\ stdout_buf' = Append(stdout_buf, command_line(cmd))
              /\ UNCHANGED stdout
  /\ pc' = "check_call"
  /\ UNCHANGED << argv, cwd, args, swift_exec, swiftpm_args, cmd, stderr,
                  child, spawned, failure, exit_status >>

\* line 15: subprocess.check_call(cmd, env=env) starts the child
SpawnChild ==
  /\ pc = "check_call"
  /\ child' = [state |-> "running", argv |-> cmd, status |-> 0]
  /\ spawned' = spawned + 1
  /\ pc' = "Running"
  /\ UNCHANGED << argv, cwd, args, swift_exec, swiftpm_args, cmd, stdout_buf,
                  stdout, stderr, failure, exit_status >>

\* line 15: the executable cannot be started (no such file): OSError
SpawnFails ==
  /\ pc = "check_call"
  /\ Raise("OSError")
  /\ UNCHANGED << argv, cwd, args, swift_exec, swiftpm_args, cmd, child,
                  spawned >>

after_child_failure_mutant_retry == "check_call"

\* where the script stands after the child failed: check_call raises
after_child_failure == "Failed"

\* line 15: check_call waits for the child, which ends with some status n;
\* n = 0: main() returns and the script ends with status 0; otherwise
\* CalledProcessError is raised and not caught
ChildExits ==
  /\ pc = "Running"
  /\ \E n \in 0..MaxStatus :
       /\ child' = [child EXCEPT !.state = "exited", !.status = n]
       /\ IF n = 0
            THEN /\ pc' = "Done"
                 /\ exit_status' = check_call_status(n)
                 /\ FlushAtExit
                 /\ UNCHANGED << failure, stderr >>
            ELSE IF after_child_failure = "Failed"
            THEN /\ pc' = "Failed"
                 /\ failure' = "CalledProcessError"
                 /\ stderr' = Append(stderr,
                                     << "Traceback", "CalledProcessError" >>)
                 /\ exit_status' = check_call_status(n)
                 /\ FlushAtExit
            ELSE /\ pc' = after_child_failure
                 /\ UNCHANGED << failure, stderr, exit_status, stdout,
                                 stdout_buf >>
  /\ UNCHANGED << argv, cwd, args, swift_exec, swiftpm_args, cmd, spawned >>

Next ==
  \/ ParseArgs
  \/ CanonicalizePaths
  \/ ResolveExecutable
  \/ Dispatch
  \/ PrintCommand
  \/ SpawnChild
  \/ SpawnFails
  \/ ChildExits

Spec == Init /\ [][Next]_vars

\* the steps of main() other than the canonicalization
OtherSteps ==
  \/ ParseArgs
  \/ ResolveExecutable
  \/ Dispatch
  \/ PrintCommand
  \/ SpawnChild
  \/ SpawnFails
  \/ ChildExits

\* The interpreter runs main() to its end and the child process terminates:
\* a step that can be taken is taken.  CanonicalizePaths is enabled exactly
\* when pc = "Parsed" and leaves it, so its weak fairness is stated as
\* []<>(pc # "Parsed").
FairSpec == Spec /\ WF_vars(OtherSteps) /\ []<>(pc # "Parsed")

(* ------------------------------ claims --------------------------------- *)

Terminated == pc \in {"Done", "Failed"}

IsSubcommand(a) == a = Str_build \/ a = Str_test

Range(q) == { q[i] : i \in 1..Len(q) }

\* C1: whenever a child was started, the subcommand is build or test and the
\* arguments after the executable are exactly the subcommand, --package-path
\* with the absolute package path, --build-path with the absolute build
\* path, --configuration with the configuration as given (default 'debug'),
\* followed by --verbose if and only if verbose was requested.
C1_ChildArguments ==
  child.state # "none" =>
    /\ IsSubcommand(argv.action)
    /\ Tail(child.argv) =
         << argv.action,
            << "--package-path" >>,
            abspath(cwd, IF argv.package_path = None THEN << "." >>
                         ELSE argv.package_path),
            << "--build-path" >>,
            abspath(cwd, IF argv.build_path = None THEN << ".", "build" >>
                         ELSE argv.build_path),
            << "--configuration" >>,
            IF argv.configuration = None THEN Str_debug
            ELSE argv.configuration >>
         \o (IF argv.verbose THEN << << "--verbose" >> >> ELSE <<>>)
    \* the default package path '.' is the working directory
    /\ argv.package_path = None => child.argv[4] = cwd
    /\ isabs(child.argv[4]) /\ isabs(child.argv[6])

C1_Witness ==
  /\ child.state = "running"
  /\ argv.action = Str_test
  /\ argv.verbose
  /\ argv.configuration = Str_other
  /\ argv.package_path = None

\* C2 as stated: omitting --toolchain with a subcommand always ends in a usage
\* error with nonzero status, and no child is started.
C2_Original ==
  (IsSubcommand(argv.action) /\ argv.toolchain = None) =>
    /\ spawned = 0
    /\ pc # "Start" =>
         pc = "Failed" /\ failure = "usage" /\ exit_status # 0

\* C2 as amended: omitting --toolchain with a subcommand ends the run inside
\* the parser and no child is ever started; the end is a usage error with
\* status 2, unless -h/--help is given: then the help is printed and the
\* status is 0.
C2_NoToolchainNoChild ==
  (IsSubcommand(argv.action) /\ argv.toolchain = None) =>
    /\ spawned = 0
    /\ child.state = "none"
    /\ pc \in {"Start", "Done", "Failed"}
    /\ pc # "Start" =>
         IF argv.help = "none"
           THEN /\ pc = "Failed"
                /\ failure = "usage"
                /\ exit_status = ExitUsage
                /\ stdout = <<>>
           ELSE /\ pc = "Done"
                /\ exit_status = 0
                /\ stdout = << HelpText >>

C2_Witness ==
  /\ pc = "Failed"
  /\ argv.action = Str_build
  /\ argv.toolchain = None
  /\ argv.help = "none"
  /\ argv.verbose

\* C3: with no subcommand or an unrecognized one (and no request for help),
\* the run ends with a usage error of the parser and nonzero status, not by
\* a later step of main(), and no child is started.
C3_UsageErrorWithoutSubcommand ==
  (~IsSubcommand(argv.action) /\ argv.help = "none") =>
    /\ spawned = 0
    /\ Terminated =>
         pc = "Failed" /\ failure = "usage" /\ exit_status # 0

\* C4 as stated: a child that exits with nonzero status n makes the script
\* exit with the same status n.
C4_Original ==
  (child.state = "exited" /\ child.status # 0) =>
    exit_status = child.status

\* C4 as amended: a child that exits with a nonzero status n makes the script
\* fail with status 1, whatever n is; standard output holds the printed
\* command line and nothing else, and standard error the traceback of the
\* uncaught CalledProcessError.
C4_ChildFailureExitsOne ==
  (child.state = "exited" /\ child.status # 0) =>
    /\ pc = "Failed"
    /\ exit_status = 1
    /\ failure = "CalledProcessError"
    /\ stdout = << command_line(child.argv) >>
    /\ stderr = << << "Traceback", "CalledProcessError" >> >>

C4_Witness ==
  /\ child.state = "exited"
  /\ child.status = MaxStatus
  /\ pc = "Failed"

\* C5 as stated: the exit status is 0 if and only if parsing succeeded and
\* the single child ran and exited with status 0.
C5_Original ==
  Terminated =>
    /\ spawned <= 1
    /\ exit_status = 0 <=> (child.state = "exited" /\ child.status = 0)

\* the parser meets -h/--help before it meets an error
HelpRequested ==
  \/ argv.help = "main"
  \/ argv.help = "sub" /\ IsSubcommand(argv.action)

\* C5 as amended: the exit status is 0 if and only if either the parser
\* printed the help (no child is run) or the single child ran and exited
\* with status 0; in every other run it is nonzero.
C5_ExitZeroIff ==
  Terminated =>
    /\ spawned <= 1
    /\ exit_status >= 0
    /\ exit_status = 0 <=>
         \/ HelpRequested /\ spawned = 0
         \/ ~HelpRequested /\ child.state = "exited" /\ child.status = 0

C5_Witness ==
  /\ pc = "Done"
  /\ child.state = "exited"
  /\ exit_status = 0

\* C6: in every run that started a child, the executable is the absolute
\* toolchain path joined with usr/bin/swift, and from the resolution on the
\* executable is never the bare 'swift'.
C6_ExecutableFromToolchain ==
  /\ pc \in {"Ready", "swiftpm", "check_call", "Running"} =>
       swift_exec # << "swift" >>
  /\ child.state # "none" =>
       LET abs == abspath(cwd, argv.toolchain)
           rel == << "usr", "/", "bin", "/", "swift" >>
       IN /\ isabs(abs)
          /\ child.argv[1] # << "swift" >>
          /\ child.argv[1] =
               IF EndsWith(abs, SEP) THEN abs \o rel
               ELSE abs \o << SEP >> \o rel

C6_Witness ==
  /\ child.state = "running"
  /\ argv.toolchain = <<>>
  /\ child.argv[1] = cwd \o << "/", "usr", "/", "bin", "/", "swift" >>

\* C7: whenever a child has been started, its command line has already been
\* written to standard output.
C7_PrintedBeforeChild ==
  child.state # "none" => command_line(child.argv) \in Range(stdout)

Rank(p) ==
  CASE p = "Start" -> 0
    [] p = "Parsed" -> 1
    [] p = "Canonical" -> 2
    [] p = "Ready" -> 3
    [] p = "swiftpm" -> 4
    [] p = "check_call" -> 5
    [] p = "Running" -> 6
    [] OTHER -> 7

\* C8: every step moves forward in Start, Parsed, Ready, Running, Done or
\* Failed; at most one child is started, and after it failed none is started
\* again; and the script eventually reaches Done or Failed.
C8_Lifecycle ==
  /\ [][Rank(pc') > Rank(pc) /\ spawned' <= 1]_vars
  /\ [][child.state = "exited" => spawned' = spawned]_vars
  /\ <>Terminated

C8_Witness ==
  /\ pc = "Failed"
  /\ child.state = "exited"
  /\ child.status # 0
  /\ spawned = 1

\* C9 as stated: resolving an already-absolute path returns it unchanged.
C9_Original ==
  (pc = "Canonical" /\ isabs(argv.toolchain)) =>
    args.toolchain = argv.toolchain

\* an absolute path with one or exactly two leading slashes and, after them,
\* no empty component and no '.' or '..'
IsNormalized(p) ==
  LET n == IF Len(p) >= 2 /\ p[2] = SEP THEN 2 ELSE 1
      rest == SubSeq(p, n + 1, Len(p))
  IN /\ isabs(p)
     /\ rest = <<>> \/
          \A c \in Range(SplitSep(rest)) :
            c \notin { <<>>, << "." >>, << ".", "." >> }

\* C9 as amended: canonicalization is idempotent, canonicalizing a
\* canonicalized path returns it unchanged; an absolute path is returned
\* unchanged if and only if it is already normalized.
C9_Idempotent ==
  pc = "Canonical" =>
    /\ \A x \in {args.toolchain, args.package_path, args.build_path} :
         isabs(x) /\ abspath(cwd, x) = x /\ IsNormalized(x)
    /\ isabs(argv.toolchain) =>
         (args.toolchain = argv.toolchain <=> IsNormalized(argv.toolchain))

C9_Witness ==
  /\ pc = "Canonical"
  /\ isabs(argv.toolchain)
  /\ args.toolchain # argv.toolchain

\* C10: the 'unknown action' assertion is never reached: at the dispatch the
\* action is build or test, and a run without subcommand ends before it, in
\* the parser or at the canonicalization.
C10_AssertUnreachable ==
  /\ failure # "AssertionError"
  /\ pc = "Ready" => IsSubcommand(args.action)
  /\ argv.action = None =>
       /\ pc \in {"Start", "Parsed", "Done", "Failed"}
       /\ pc = "Failed" => failure \in {"usage", "AttributeError"}
       /\ spawned = 0

C10_Witness ==
  /\ pc = "swiftpm"
  /\ args.action = Str_test
  /\ cmd[2] = Str_test

====
